---- MODULE Spec2Model ----
(***************************************************************************)
(* Thread-graph reconstruction engine of the emotion-contagion pipeline:   *)
(* data/thread_builder.py, class ThreadBuilder.                            *)
(*                                                                         *)
(* A builder object owns a comment table (self.df) and a dictionary of     *)
(* per-thread directed graphs (self.graphs).  Its public methods are       *)
(* build_thread_graphs, calculate_depths, filter_deep_threads and          *)
(* get_parent_child_pairs; a caller may invoke them in any order.          *)
(*                                                                         *)
(* Strings are sequences of one-character strings, so that the prefix      *)
(* regular expression of _clean_reddit_id is computed, not assumed.        *)
(* A table is a sequence of rows; a row is a function from column names    *)
(* to values.  Input tables carry the columns id, parent_id, link_id and   *)
(* text.                                                                   *)
(*                                                                         *)
(* Spec is the builder after construction on a full table.  SpecColumns    *)
(* starts before construction, on tables that may lack a column.           *)
(* SpecClean applies _clean_reddit_id alone.  SpecCli is the preprocess    *)
(* command of emocon/cli.py running the steps of emocon/data/pipeline.py.  *)
(* SpecAggregator is the EmotionAggregator of emocon/models/                *)
(* emotion_model.py.  SpecLoader is the RedditDataLoader of data/loader.py. *)
(* SpecAnalyze is the analyze command of emocon/cli.py, one step per       *)
(* stage.                                                                  *)
(***************************************************************************)
EXTENDS Integers, Sequences, FiniteSets, TLC

VARIABLES
    input,      \* the table handed to ThreadBuilder(df); never changes
                \* (under SpecClean: the reference handed to _clean_reddit_id)
    df,         \* self.df: sequence of rows
                \* (under SpecAggregator: the aggregator's attributes role,
                \* suffix and id_column, <<>> while no aggregator exists;
                \* under SpecLoader: the loader's attributes source and data;
                \* under SpecAnalyze: how each of the five stages ended)
    columns,    \* the column names of self.df
    graphs,     \* self.graphs: link_id -> graph
    calcRuns,   \* number of calculate_depths executions so far
    lastOp,     \* the method called last ("init" after construction,
                \* "new" under SpecColumns while no builder is constructed)
    arg,        \* its argument (min_depth), 0 when it takes none
                \* (under SpecCli: the --min-depth option of the command)
    outcome,    \* "ok" or the exception the call raised
    result      \* the table the call returned (<<>> when none)
                \* (under SpecClean: the values the successive calls returned;
                \* under SpecLoader: the calls made so far, each with the
                \* file it found, how it ended and self.data after it;
                \* under SpecAnalyze: the lines echoed so far)

vars == <<input, df, columns, graphs, calcRuns, lastOp, arg, outcome, result>>

----------------------------------------------------------------------------
(* Bounds of the model *)

MaxRows == 3        \* rows of an input table
MaxCalcRuns == 2    \* executions of calculate_depths on one builder
MaxMinDepth == 2    \* largest min_depth passed to filter_deep_threads
MaxRefLen == 6      \* characters of a reference handed to _clean_reddit_id
MaxCleanCalls == 2  \* times _clean_reddit_id is applied to its own output
MaxColRows == 2     \* rows of an input table under SpecColumns
MaxActive == 3      \* active emotion indicators of a row under SpecAggregator
MaxLoaderCalls == 4 \* load and get_basic_stats calls on one loader

----------------------------------------------------------------------------
(* Values *)

NaN == <<"NaN">>    \* the missing value (pd.isna); no string equals it

\* the missing value of a numeric column (float NaN); no depth equals it
NaNDepth == -1

Ids == { <<"a">>, <<"b">>, <<"c">> }

\* raw parent references: missing, prefixed references to a and b, and a
\* prefixed reference to a submission that is no row of any table
ParentRefs == { NaN,
                <<"t", "1", "_", "a">>,
                <<"t", "1", "_", "b">>,
                <<"t", "3", "_", "x">> }

\* thread identifiers in the order groupby('link_id') sorts them
ThreadOrder == << <<"T", "1">>, <<"T", "2">> >>

Range(s) == { s[i] : i \in DOMAIN s }

LinkIds == Range(ThreadOrder)

Digits == { "0", "1", "2", "3", "4", "5", "6", "7", "8", "9" }

\* the concatenation of a sequence of sequences
RECURSIVE Concat(_)
Concat(ss) == IF ss = <<>> THEN <<>> ELSE Head(ss) \o Concat(Tail(ss))

\* a row with column c set to v, and a row without column c
WithCol(r, c, v) == [k \in (DOMAIN r) \cup {c} |-> IF k = c THEN v ELSE r[k]]

WithoutCol(r, c) == [k \in (DOMAIN r) \ {c} |-> r[k]]

----------------------------------------------------------------------------
(* ThreadBuilder._clean_reddit_id: re.sub(r'^t\d+_', '', str(reddit_id)) *)

\* index of the last digit of the digit run that starts at position i
\* (i - 1 when s[i] is no digit)
RECURSIVE DigitRunEnd(_, _)
DigitRunEnd(s, i) ==
    IF i <= Len(s) /\ s[i] \in Digits THEN DigitRunEnd(s, i + 1) ELSE i - 1

\* variant of PrefixMatchLen for the pattern ^t\d+ (no underscore required)
PrefixMatchLenNoUnderscore(s) ==
    IF Len(s) >= 1 /\ s[1] = "t"
    THEN LET e == DigitRunEnd(s, 2)
         IN IF e >= 2 THEN e ELSE 0
    ELSE 0

\* length of the match of ^t\d+_ at the start of s, 0 when it does not match
PrefixMatchLen(s) ==
    IF Len(s) >= 1 /\ s[1] = "t"
    THEN LET e == DigitRunEnd(s, 2)
         IN IF e >= 2 /\ e + 1 <= Len(s) /\ s[e + 1] = "_" THEN e + 1 ELSE 0
    ELSE 0

\* variant of clean_reddit_id that strips prefixes until none is left
RECURSIVE CleanEveryPrefix(_)
CleanEveryPrefix(reddit_id) ==
    IF reddit_id = NaN \/ PrefixMatchLen(reddit_id) = 0
    THEN reddit_id
    ELSE CleanEveryPrefix(SubSeq(reddit_id, PrefixMatchLen(reddit_id) + 1,
                                 Len(reddit_id)))

clean_reddit_id(reddit_id) ==
    IF reddit_id = NaN
    THEN reddit_id
    ELSE SubSeq(reddit_id, PrefixMatchLen(reddit_id) + 1, Len(reddit_id))

----------------------------------------------------------------------------
(* ThreadBuilder.__init__ *)

\* the text of every comment (its value plays no role)
Text == <<"x">>

InputRow(i, p, l) == [id |-> i, parent_id |-> p, link_id |-> l, text |-> Text]

InputRows == { InputRow(i, p, l) : i \in Ids, p \in ParentRefs, l \in LinkIds }

InputTables == UNION { [1..n -> InputRows] : n \in 0..MaxRows }

\* self.df['parent_id_clean'] = self.df['parent_id'].apply(_clean_reddit_id)
WithParentClean(r) ==
    WithCol(r, "parent_id_clean", clean_reddit_id(r.parent_id))

Init ==
    /\ input \in InputTables
    /\ df = [i \in DOMAIN input |-> WithParentClean(input[i])]
    /\ columns = {"id", "parent_id", "link_id", "text", "parent_id_clean"}
    /\ graphs = <<>>
    /\ calcRuns = 0
    /\ lastOp = "init"
    /\ arg = 0
    /\ outcome = "ok"
    /\ result = <<>>

\* a builder object exists (the constructor has returned): its table has
\* the column parent_id_clean; the methods are callable on a builder only
Constructed == "parent_id_clean" \in columns

----------------------------------------------------------------------------
(* ThreadBuilder.build_thread_graphs *)

EmptyGraph == [nodes |-> <<>>, edges |-> <<>>]

\* nx.DiGraph.add_node: a node already present keeps its place
AddNode(G, n) ==
    IF n \in Range(G.nodes) THEN G ELSE [G EXCEPT !.nodes = Append(@, n)]

\* variant of AddEdge that directs the edge child -> parent
AddEdgeReversed(G, u, v) ==
    LET H == AddNode(AddNode(G, u), v)
    IN IF <<v, u>> \in Range(H.edges) THEN H
       ELSE [H EXCEPT !.edges = Append(@, <<v, u>>)]

\* nx.DiGraph.add_edge: adds missing end points, keeps an edge already present
AddEdge(G, u, v) ==
    LET H == AddNode(AddNode(G, u), v)
    IN IF <<u, v>> \in Range(H.edges) THEN H
       ELSE [H EXCEPT !.edges = Append(@, <<u, v>>)]

\* for idx, row in group.iterrows(): G.add_node(row['id'], ...)
RECURSIVE AddNodes(_, _)
AddNodes(G, rows) ==
    IF rows = <<>> THEN G
    ELSE AddNodes(AddNode(G, Head(rows).id), Tail(rows))

\* variant of ParentInGraph without the membership test
ParentNotNull(G, row) == row.parent_id_clean # NaN

\* if pd.notna(parent_clean) and parent_clean in G.nodes
ParentInGraph(G, row) ==
    /\ row.parent_id_clean # NaN
    /\ row.parent_id_clean \in Range(G.nodes)

\* for idx, row in group.iterrows(): ... G.add_edge(parent_clean, row['id'])
RECURSIVE AddEdges(_, _)
AddEdges(G, rows) ==
    IF rows = <<>> THEN G
    ELSE LET row == Head(rows)
         IN AddEdges(IF ParentInGraph(G, row)
                     THEN AddEdge(G, row.parent_id_clean, row.id)
                     ELSE G,
                     Tail(rows))

Group(table, link) == SelectSeq(table, LAMBDA r : r.link_id = link)

BuildGraph(group) == AddEdges(AddNodes(EmptyGraph, group), group)

\* the keys groupby('link_id') yields
GroupKeys(table) == { table[i].link_id : i \in DOMAIN table }

\* self.graphs after the loop: one entry per group, older entries kept
BuiltGraphs(old, table) ==
    [l \in (DOMAIN old) \cup GroupKeys(table) |->
        IF l \in GroupKeys(table) THEN BuildGraph(Group(table, l)) ELSE old[l]]

\* the exception of the loop on a table that lacks a column it reads:
\* groupby('link_id') raises without link_id, row['id'] raises in the first
\* group without id (a table with no row has no group)
BuildOutcome(table, cols) ==
    IF "link_id" \notin cols THEN "KeyError"
    ELSE IF "id" \notin cols /\ table # <<>> THEN "KeyError"
    ELSE "ok"

build_thread_graphs ==
    /\ Constructed
    /\ IF BuildOutcome(df, columns) = "ok"
       THEN /\ graphs' = BuiltGraphs(graphs, df)
            /\ outcome' = "ok"
       ELSE /\ graphs' = graphs
            /\ outcome' = BuildOutcome(df, columns)
    /\ lastOp' = "build_thread_graphs"
    /\ arg' = 0
    /\ result' = <<>>
    /\ UNCHANGED <<input, df, columns, calcRuns>>

----------------------------------------------------------------------------
(* ThreadBuilder.calculate_depths *)

\* G.in_degree(n)
InDegree(G, n) == Cardinality({ i \in DOMAIN G.edges : G.edges[i][2] = n })

\* root_nodes = [n for n in G.nodes() if G.in_degree(n) == 0]
RootNodes(G) == SelectSeq(G.nodes, LAMBDA n : InDegree(G, n) = 0)

\* the successors of v in the order their edges were added (G.adj[v])
Successors(G, v) ==
    LET out == SelectSeq(G.edges, LAMBDA e : e[1] = v)
    IN [i \in DOMAIN out |-> out[i][2]]

\* the candidates not seen before, each once, in order
RECURSIVE Unseen(_, _)
Unseen(cand, seen) ==
    IF cand = <<>> THEN <<>>
    ELSE IF Head(cand) \in seen THEN Unseen(Tail(cand), seen)
    ELSE <<Head(cand)>> \o Unseen(Tail(cand), seen \cup {Head(cand)})

\* the breadth-first search of nx.single_source_shortest_path_length: the
\* nodes of this level with their depth, then those of the next levels
RECURSIVE ShortestPathLevels(_, _, _, _)
ShortestPathLevels(G, thislevel, seen, level) ==
    IF thislevel = <<>> THEN <<>>
    ELSE LET nextlevel ==
                 Unseen(Concat([i \in DOMAIN thislevel |->
                                   Successors(G, thislevel[i])]), seen)
         IN [i \in DOMAIN thislevel |-> [node |-> thislevel[i], depth |-> level]]
            \o ShortestPathLevels(G, nextlevel, seen \cup Range(nextlevel),
                                  level + 1)

\* variant of single_source_shortest_path_length that reports the number of
\* the node in visiting order instead of its level
VisitOrderLength(G, root) ==
    LET visited == ShortestPathLevels(G, <<root>>, {root}, 0)
    IN [i \in DOMAIN visited |-> [node |-> visited[i].node, depth |-> i - 1]]

\* variant of the search that never marks a node as seen: every successor
\* of a level enters the next one (cut off after four levels)
RECURSIVE UnmarkedLevels(_, _, _)
UnmarkedLevels(G, thislevel, level) ==
    IF thislevel = <<>> \/ level > 4 THEN <<>>
    ELSE [i \in DOMAIN thislevel |-> [node |-> thislevel[i], depth |-> level]]
         \o UnmarkedLevels(G,
                Concat([i \in DOMAIN thislevel |-> Successors(G, thislevel[i])]),
                level + 1)

\* variant of single_source_shortest_path_length built on UnmarkedLevels
UnmarkedPathLength(G, root) == UnmarkedLevels(G, <<root>>, 0)

single_source_shortest_path_length(G, root) ==
    ShortestPathLevels(G, <<root>>, {root}, 0)

\* the entries one graph appends to depth_list
GraphDepths(link, G) ==
    LET root_nodes == RootNodes(G)
    IN Concat([r \in DOMAIN root_nodes |->
           LET depths == single_source_shortest_path_length(G, root_nodes[r])
           IN [i \in DOMAIN depths |->
                  [id |-> depths[i].node, link_id |-> link,
                   depth |-> depths[i].depth]]])

\* depth_list after the loop over self.graphs.items() (keys in the order
\* build_thread_graphs inserted them)
DepthList(gs) ==
    LET keys == SelectSeq(ThreadOrder, LAMBDA l : l \in DOMAIN gs)
    IN Concat([k \in DOMAIN keys |-> GraphDepths(keys[k], gs[keys[k]])])

\* variant of LeftJoinDepth that joins how='inner': unmatched rows are dropped
InnerJoinDepth(table, depth_df, col) ==
    Concat([k \in DOMAIN table |->
        LET m == SelectSeq(depth_df, LAMBDA e : e.id = table[k].id)
        IN [i \in DOMAIN m |-> WithCol(table[k], col, m[i].depth)]])

\* one row of the left join on 'id' for every matching depth entry, or one
\* row with a missing value in column col when there is none
LeftJoinDepth(table, depth_df, col) ==
    Concat([k \in DOMAIN table |->
        LET m == SelectSeq(depth_df, LAMBDA e : e.id = table[k].id)
        IN IF m = <<>> THEN << WithCol(table[k], col, NaNDepth) >>
           ELSE [i \in DOMAIN m |-> WithCol(table[k], col, m[i].depth)]])

\* variant of FillNa that leaves the missing depths in place
FillNaSkipped(table) == table

\* self.df['depth'].fillna(0)
FillNa(table) ==
    [i \in DOMAIN table |->
        IF table[i].depth = NaNDepth THEN WithCol(table[i], "depth", 0) ELSE table[i]]

\* the column 'depth' of both frames renamed by the default suffixes
RenameDepthX(table) ==
    [i \in DOMAIN table |->
        WithCol(WithoutCol(table[i], "depth"), "depth_x", table[i].depth)]

\* The whole call on a builder in state (table, cols, gs): the builder's new
\* state and how the call ended.
\*  - an empty depth_list makes pd.DataFrame([]) a frame without columns, and
\*    depth_df[['id', 'depth']] raises KeyError before self.df is assigned;
\*  - when self.df already has 'depth', the merge yields depth_x and depth_y,
\*    self.df is assigned, and self.df['depth'] raises KeyError;
\*  - when it has depth_x as well, the suffixed names collide and merge
\*    raises MergeError before self.df is assigned.
CalculateDepths(table, cols, gs) ==
    LET gs1 == IF DOMAIN gs = {} THEN BuiltGraphs(gs, table) ELSE gs
        depth_df == DepthList(gs1)
    IN IF DOMAIN gs = {} /\ BuildOutcome(table, cols) # "ok"
       THEN [df |-> table, columns |-> cols, graphs |-> gs,
             outcome |-> BuildOutcome(table, cols)]
       ELSE IF depth_df = <<>>
       THEN [df |-> table, columns |-> cols, graphs |-> gs1,
             outcome |-> "KeyError"]
       ELSE IF "depth" \notin cols
       THEN [df |-> FillNa(LeftJoinDepth(table, depth_df, "depth")),
             columns |-> cols \cup {"depth"}, graphs |-> gs1,
             outcome |-> "ok"]
       ELSE IF "depth_x" \notin cols
       THEN [df |-> LeftJoinDepth(RenameDepthX(table), depth_df, "depth_y"),
             columns |-> (cols \ {"depth"}) \cup {"depth_x", "depth_y"},
             graphs |-> gs1, outcome |-> "KeyError"]
       ELSE [df |-> table, columns |-> cols, graphs |-> gs1,
             outcome |-> "MergeError"]

calculate_depths ==
    /\ Constructed
    /\ calcRuns < MaxCalcRuns
    /\ LET c == CalculateDepths(df, columns, graphs)
       IN /\ df' = c.df
          /\ columns' = c.columns
          /\ graphs' = c.graphs
          /\ outcome' = c.outcome
          /\ result' = IF c.outcome = "ok" THEN c.df ELSE <<>>
    /\ calcRuns' = calcRuns + 1
    /\ lastOp' = "calculate_depths"
    /\ arg' = 0
    /\ UNCHANGED input

----------------------------------------------------------------------------
(* ThreadBuilder.filter_deep_threads *)

SetMax(S) == CHOOSE x \in S : \A y \in S : y <= x

\* self.df.groupby('link_id')['depth'].max(), at one key
ThreadMaxDepth(table, link) ==
    SetMax({ table[i].depth : i \in { j \in DOMAIN table : table[j].link_id = link } })

\* variant of DeepThreads with an exclusive threshold
DeeperThreads(table, min_depth) ==
    { l \in GroupKeys(table) : ThreadMaxDepth(table, l) > min_depth }

\* thread_max_depths[thread_max_depths >= min_depth].index
DeepThreads(table, min_depth) ==
    { l \in GroupKeys(table) : ThreadMaxDepth(table, l) >= min_depth }

\* self.df[self.df['link_id'].isin(deep_threads)].copy()
FilteredRows(table, min_depth) ==
    SelectSeq(table, LAMBDA r : r.link_id \in DeepThreads(table, min_depth))

\* variant of filter_deep_threads that keeps the filtered rows as self.df
FilterInPlace(min_depth) ==
    /\ Constructed
    /\ "depth" \notin columns => calcRuns < MaxCalcRuns
    /\ LET c == IF "depth" \notin columns
                THEN CalculateDepths(df, columns, graphs)
                ELSE [df |-> df, columns |-> columns, graphs |-> graphs,
                      outcome |-> "ok"]
       IN /\ df' = IF c.outcome = "ok"
                   THEN FilteredRows(c.df, min_depth) ELSE c.df
          /\ columns' = c.columns
          /\ graphs' = c.graphs
          /\ outcome' = c.outcome
          /\ result' = IF c.outcome = "ok"
                       THEN FilteredRows(c.df, min_depth) ELSE <<>>
    /\ calcRuns' = IF "depth" \notin columns THEN calcRuns + 1 ELSE calcRuns
    /\ lastOp' = "filter_deep_threads"
    /\ arg' = min_depth
    /\ UNCHANGED input

filter_deep_threads(min_depth) ==
    /\ Constructed
    /\ "depth" \notin columns => calcRuns < MaxCalcRuns
    /\ LET c == IF "depth" \notin columns
                THEN CalculateDepths(df, columns, graphs)
                ELSE [df |-> df, columns |-> columns, graphs |-> graphs,
                      outcome |-> "ok"]
       IN /\ df' = c.df
          /\ columns' = c.columns
          /\ graphs' = c.graphs
          /\ outcome' = c.outcome
          /\ result' = IF c.outcome = "ok"
                       THEN FilteredRows(c.df, min_depth) ELSE <<>>
    /\ calcRuns' = IF "depth" \notin columns THEN calcRuns + 1 ELSE calcRuns
    /\ lastOp' = "filter_deep_threads"
    /\ arg' = min_depth
    /\ UNCHANGED input

----------------------------------------------------------------------------
(* ThreadBuilder.get_parent_child_pairs *)

\* the columns the method never treats as emotion columns
NonEmotionCols ==
    { "id", "text", "text_clean", "author", "subreddit", "link_id",
      "parent_id", "parent_id_clean", "created_utc", "rater_id",
      "example_very_unclear", "depth" }

\* merge_cols: 'id', 'text', 'text_clean' when present, the emotion columns
MergeCols(cols) ==
    {"id", "text"} \cup (cols \cap {"text_clean"}) \cup (cols \ NonEmotionCols)

\* children = self.df[self.df['parent_id_clean'].notna()]
Children(table) == SelectSeq(table, LAMBDA r : r.parent_id_clean # NaN)

\* variant of PairRow that leaves the child's side of a shared column
\* without a suffix, as suffixes=('', '_parent') would
PairRowBareChild(child, parent, mcols) ==
    [k \in (DOMAIN child) \cup { c \o "_parent" : c \in mcols } |->
        IF k \in DOMAIN child THEN child[k]
        ELSE parent[CHOOSE c \in mcols : k = c \o "_parent"]]

\* One row of the merge: a column both frames have takes the suffix of its
\* side, a column only the children frame has keeps its name.
PairRow(child, parent, mcols) ==
    LET shared == mcols \cap DOMAIN child
        own == (DOMAIN child) \ mcols
    IN [k \in own \cup { c \o "_child" : c \in shared }
               \cup { c \o "_parent" : c \in mcols } |->
           IF k \in own THEN child[k]
           ELSE IF \E c \in shared : k = c \o "_child"
           THEN child[CHOOSE c \in shared : k = c \o "_child"]
           ELSE parent[CHOOSE c \in mcols : k = c \o "_parent"]]

\* variant of ParentChildPairs that joins on the raw parent_id
ParentChildPairsRaw(table, cols) ==
    LET children == Children(table)
    IN Concat([k \in DOMAIN children |->
           LET parents == SelectSeq(table, LAMBDA p :
                              p.id = children[k].parent_id)
           IN [i \in DOMAIN parents |->
                  PairRow(children[k], parents[i], MergeCols(cols))]])

\* children.merge(self.df[merge_cols], left_on='parent_id_clean',
\*                right_on='id', suffixes=('_child', '_parent'), how='inner')
ParentChildPairs(table, cols) ==
    LET children == Children(table)
    IN Concat([k \in DOMAIN children |->
           LET parents == SelectSeq(table, LAMBDA p :
                              p.id = children[k].parent_id_clean)
           IN [i \in DOMAIN parents |->
                  PairRow(children[k], parents[i], MergeCols(cols))]])

get_parent_child_pairs ==
    /\ Constructed
    /\ IF MergeCols(columns) \subseteq columns
       THEN /\ outcome' = "ok"
            /\ result' = ParentChildPairs(df, columns)
       ELSE /\ outcome' = "KeyError"    \* self.df[merge_cols]
            /\ result' = <<>>
    /\ lastOp' = "get_parent_child_pairs"
    /\ arg' = 0
    /\ UNCHANGED <<input, df, columns, graphs, calcRuns>>

----------------------------------------------------------------------------
Next ==
    \/ build_thread_graphs
    \/ calculate_depths
    \/ \E min_depth \in 0..MaxMinDepth : filter_deep_threads(min_depth)
    \/ get_parent_child_pairs

Spec == Init /\ [][Next]_vars

----------------------------------------------------------------------------
(* ThreadBuilder on tables that lack a column: the constructor is a step   *)
(* of its own, and the methods are callable once it has returned.          *)

\* the column sets of the tables: all four columns, or all but one
ColumnSets ==
    { {"id", "parent_id", "link_id", "text"} \ d :
          d \in { {}, {"id"}, {"parent_id"}, {"link_id"}, {"text"} } }

\* a row restricted to a column set
Project(r, cols) == [k \in cols |-> r[k]]

ColumnTables ==
    { [i \in DOMAIN t |-> Project(t[i], cols)] :
          t \in UNION { [1..n -> InputRows] : n \in 1..MaxColRows },
          cols \in ColumnSets }

InitColumns ==
    /\ input \in ColumnTables
    /\ df = <<>>
    /\ columns = {}
    /\ graphs = <<>>
    /\ calcRuns = 0
    /\ lastOp = "new"
    /\ arg = 0
    /\ outcome = "ok"
    /\ result = <<>>

\* the columns of the table handed to the constructor
InputColumns == IF input = <<>> THEN {} ELSE DOMAIN input[1]

\* ThreadBuilder(df): self.df['parent_id'] raises when the column is absent,
\* no other column is looked at
construct ==
    /\ lastOp = "new"
    /\ IF "parent_id" \in InputColumns
       THEN /\ df' = [i \in DOMAIN input |-> WithParentClean(input[i])]
            /\ columns' = InputColumns \cup {"parent_id_clean"}
            /\ outcome' = "ok"
       ELSE /\ UNCHANGED <<df, columns>>
            /\ outcome' = "KeyError"
    /\ lastOp' = "__init__"
    /\ UNCHANGED <<input, graphs, calcRuns, arg, result>>

NextColumns ==
    \/ construct
    \/ Next

SpecColumns == InitColumns /\ [][NextColumns]_vars

----------------------------------------------------------------------------
(* The preprocess command of emocon/cli.py, which runs the data pipeline   *)
(* of emocon/data/pipeline.py: steps 4 to 6 on the aggregated table.       *)

\* the table after rater aggregation (pipeline.py line 119 asserts that its
\* ids are unique)
AggregatedTables ==
    { t \in InputTables : \A i, j \in DOMAIN t : t[i].id = t[j].id => i = j }

InitCli ==
    /\ input \in AggregatedTables
    /\ df = <<>>
    /\ columns = {}
    /\ graphs = <<>>
    /\ calcRuns = 0
    /\ lastOp = "new"
    /\ arg = 0
    /\ outcome = "ok"
    /\ result = <<>>

\* builder.filter_deep_threads(min_depth=1): the threshold of the pipeline
PipelineMinDepth == 1

\* steps 4 to 6: ThreadBuilder(df), build_thread_graphs(), calculate_depths(),
\* filter_deep_threads(min_depth=1), get_parent_child_pairs(); the pipeline
\* takes no parameter
RunDataPipeline(table) ==
    LET cols == {"id", "parent_id", "link_id", "text", "parent_id_clean"}
        built == BuiltGraphs(<<>>, [i \in DOMAIN table |-> WithParentClean(table[i])])
        c == CalculateDepths([i \in DOMAIN table |-> WithParentClean(table[i])],
                             cols, built)
    IN IF c.outcome = "ok"
       THEN [df |-> c.df, columns |-> c.columns, graphs |-> c.graphs,
             outcome |-> "ok",
             result |-> [threads_with_replies |->
                             FilteredRows(c.df, PipelineMinDepth),
                         parent_child_pairs |->
                             ParentChildPairs(c.df, c.columns)]]
       ELSE [df |-> c.df, columns |-> c.columns, graphs |-> c.graphs,
             outcome |-> c.outcome, result |-> <<>>]

\* emocon preprocess --min-depth <min_depth>: calls run_data_pipeline() with
\* no argument
preprocess(min_depth) ==
    /\ lastOp = "new"
    /\ LET run == RunDataPipeline(input)
       IN /\ df' = run.df
          /\ columns' = run.columns
          /\ graphs' = run.graphs
          /\ outcome' = run.outcome
          /\ result' = run.result
    /\ calcRuns' = calcRuns + 1
    /\ lastOp' = "preprocess"
    /\ arg' = min_depth
    /\ UNCHANGED input

NextCli == \E min_depth \in 0..MaxMinDepth : preprocess(min_depth)

SpecCli == InitCli /\ [][NextCli]_vars

----------------------------------------------------------------------------
(* EmotionAggregator of emocon/models/emotion_model.py.  Valence scores    *)
(* are counted in tenths; a mean is the pair of its numerator and          *)
(* denominator.                                                            *)

GOEMOTION_BASE ==
    << "admiration", "amusement", "anger", "annoyance", "approval", "caring",
       "confusion", "curiosity", "desire", "disappointment", "disapproval",
       "disgust", "embarrassment", "excitement", "fear", "gratitude", "grief",
       "joy", "love", "nervousness", "optimism", "pride", "realization",
       "relief", "remorse", "sadness", "surprise", "neutral",
       "example_very_unclear" >>

EMOTION_TO_MACRO ==
    [ admiration |-> "joy", amusement |-> "joy", approval |-> "joy",
      caring |-> "joy", excitement |-> "joy", gratitude |-> "joy",
      joy |-> "joy", love |-> "joy", optimism |-> "joy", pride |-> "joy",
      relief |-> "joy",
      anger |-> "anger", annoyance |-> "anger", disappointment |-> "anger",
      disapproval |-> "anger",
      grief |-> "sadness", remorse |-> "sadness", sadness |-> "sadness",
      fear |-> "fear", nervousness |-> "fear",
      confusion |-> "other_negative", embarrassment |-> "other_negative",
      disgust |-> "other_negative",
      neutral |-> "neutral", realization |-> "neutral",
      curiosity |-> "neutral", desire |-> "neutral",
      example_very_unclear |-> "neutral" ]

\* the valence scores, in tenths
EMOTION_VALENCE ==
    [ admiration |-> 7, amusement |-> 8, approval |-> 6, caring |-> 6,
      excitement |-> 8, gratitude |-> 9, joy |-> 10, love |-> 9,
      optimism |-> 8, pride |-> 7, relief |-> 6,
      anger |-> -9, annoyance |-> -6, disappointment |-> -7,
      disapproval |-> -6,
      grief |-> -9, remorse |-> -7, sadness |-> -8,
      fear |-> -8, nervousness |-> -6,
      confusion |-> -3, embarrassment |-> -5, disgust |-> -8,
      neutral |-> 0, realization |-> 0, curiosity |-> 1, desire |-> 2,
      example_very_unclear |-> 0 ]

\* EMOTION_TO_MACRO.get(emo, "neutral")
MacroOf(emo) ==
    IF emo \in DOMAIN EMOTION_TO_MACRO THEN EMOTION_TO_MACRO[emo] ELSE "neutral"

\* EMOTION_VALENCE.get(emo, 0.0), in tenths
ValenceOf(emo) ==
    IF emo \in DOMAIN EMOTION_VALENCE THEN EMOTION_VALENCE[emo] ELSE 0

\* the roles a caller may ask for
Roles == { "child", "parent", "invalid", "Child", "" }

\* the sets of at most k base emotions
RECURSIVE EmotionSets(_)
EmotionSets(k) ==
    IF k = 0 THEN {{}}
    ELSE { a \cup b : a \in EmotionSets(k - 1),
                      b \in {{}} \cup { {e} : e \in Range(GOEMOTION_BASE) } }

\* a row of the pairs table: both id columns and, for either role, one 0/1
\* indicator column per base emotion
PairsRow(cid, pid, childActive, parentActive) ==
    [k \in {"id_child", "id_parent"}
           \cup { e \o "_child" : e \in Range(GOEMOTION_BASE) }
           \cup { e \o "_parent" : e \in Range(GOEMOTION_BASE) } |->
        IF k = "id_child" THEN cid
        ELSE IF k = "id_parent" THEN pid
        ELSE IF \E e \in childActive : k = e \o "_child" THEN 1
        ELSE IF \E e \in parentActive : k = e \o "_parent" THEN 1
        ELSE 0]

\* rows whose indicators are active on one side only, at most k of them
PairsRows(k) ==
    { PairsRow(<<"b">>, <<"a">>, act, {}) : act \in EmotionSets(k) }
    \cup { PairsRow(<<"b">>, <<"a">>, {}, act) : act \in EmotionSets(k) }
    \cup { PairsRow(<<"c">>, <<"b">>, act, {}) : act \in EmotionSets(1) }

\* the tables handed to process_dataframe: no row, one row with up to
\* MaxActive active indicators, or two rows with at most one each
PairsTables ==
    { <<>> }
    \cup { <<r>> : r \in PairsRows(MaxActive) }
    \cup { <<r1, r2>> : r1 \in PairsRows(1), r2 \in PairsRows(1) }

InitAggregator ==
    /\ input \in PairsTables
    /\ df = <<>>
    /\ columns = {}
    /\ graphs = <<>>
    /\ calcRuns = 0
    /\ lastOp = "new"
    /\ arg = 0
    /\ outcome = "ok"
    /\ result = <<>>

\* variant of EmotionAggregator that accepts any role
EmotionAggregatorUnchecked(role) ==
    /\ lastOp = "new"
    /\ outcome' = "ok"
    /\ df' = [role |-> role,
              suffix |-> IF role = "child" THEN "_child" ELSE "_parent",
              id_column |-> IF role = "child" THEN "id_child" ELSE "id_parent"]
    /\ lastOp' = "__init__"
    /\ arg' = role
    /\ UNCHANGED <<input, columns, graphs, calcRuns, result>>

\* EmotionAggregator(role)
EmotionAggregator(role) ==
    /\ lastOp = "new"
    /\ IF role \notin {"child", "parent"}
       THEN /\ outcome' = "ValueError"
            /\ df' = df
       ELSE /\ outcome' = "ok"
            /\ df' = [role |-> role,
                      suffix |-> IF role = "child" THEN "_child" ELSE "_parent",
                      id_column |-> IF role = "child" THEN "id_child"
                                    ELSE "id_parent"]
    /\ lastOp' = "__init__"
    /\ arg' = role
    /\ UNCHANGED <<input, columns, graphs, calcRuns, result>>

\* active_emotions: the base emotions, in the order of GOEMOTION_BASE, whose
\* column "<emotion><suffix>" is in the row and holds 1
ActiveEmotions(self, row) ==
    SelectSeq(GOEMOTION_BASE, LAMBDA emo :
        /\ (emo \o self.suffix) \in DOMAIN row
        /\ row[emo \o self.suffix] = 1)

\* the sum of a sequence of integers
RECURSIVE Sum(_)
Sum(q) == IF q = <<>> THEN 0 ELSE Head(q) + Sum(Tail(q))

\* max(macro_counts, key=macro_counts.get): the macro label counted most
\* often, the one inserted first among equals
DominantMacro(active) ==
    LET macros == [i \in DOMAIN active |-> MacroOf(active[i])]
        count(m) == Cardinality({ i \in DOMAIN macros : macros[i] = m })
        first == CHOOSE i \in DOMAIN macros :
                     /\ \A j \in DOMAIN macros : count(macros[j]) <= count(macros[i])
                     /\ \A j \in 1..(i - 1) : count(macros[j]) < count(macros[i])
    IN macros[first]

\* variant of aggregate_row_emotion that reports the sum of the valence
\* scores instead of their mean
AggregateRowSum(self, row) ==
    LET active == ActiveEmotions(self, row)
    IN IF Len(active) = 0
       THEN [macro_label |-> "neutral", valence |-> [num |-> 0, den |-> 10]]
       ELSE [macro_label |-> DominantMacro(active),
             valence |-> [num |-> Sum([i \in DOMAIN active |-> ValenceOf(active[i])]),
                          den |-> 10]]

aggregate_row_emotion(self, row) ==
    LET active == ActiveEmotions(self, row)
    IN IF Len(active) = 0
       THEN [macro_label |-> "neutral", valence |-> [num |-> 0, den |-> 10]]
       ELSE [macro_label |-> DominantMacro(active),
             valence |-> [num |-> Sum([i \in DOMAIN active |-> ValenceOf(active[i])]),
                          den |-> 10 * Len(active)]]

\* variant of CommentId that reads id_child whatever the role
CommentIdChild(self, row) ==
    IF "id_child" \in DOMAIN row THEN row["id_child"] ELSE NaN

\* row.get(self.id_column, None)
CommentId(self, row) ==
    IF self.id_column \in DOMAIN row THEN row[self.id_column] ELSE NaN

process_dataframe ==
    /\ lastOp \in {"__init__", "process_dataframe"}
    /\ df # <<>>
    /\ result' = [i \in DOMAIN input |->
                     [comment_id |-> CommentId(df, input[i]),
                      macro_label |-> aggregate_row_emotion(df, input[i]).macro_label,
                      valence |-> aggregate_row_emotion(df, input[i]).valence]]
    /\ lastOp' = "process_dataframe"
    /\ outcome' = "ok"
    /\ UNCHANGED <<input, df, columns, graphs, calcRuns, arg>>

NextAggregator ==
    \/ \E role \in Roles : EmotionAggregator(role)
    \/ process_dataframe

SpecAggregator == InitAggregator /\ [][NextAggregator]_vars

----------------------------------------------------------------------------
(* RedditDataLoader of data/loader.py.  What a load call finds at the     *)
(* source path is an input of the call.                                    *)

DEFAULT_FILENAME == "goemotions_local.csv"

\* the constructor called without a source
Unset == "unset"

\* RedditDataLoader() or RedditDataLoader(source)
SourceArgs == { Unset, "data/goemotions.csv" }

\* the tables a CSV file may hold: with the columns get_basic_stats reads,
\* without parent_id, without link_id
CsvTables ==
    { << [id |-> <<"a">>, parent_id |-> NaN, link_id |-> <<"T", "1">>],
         [id |-> <<"b">>, parent_id |-> <<"t", "1", "_", "a">>,
          link_id |-> <<"T", "1">>] >>,
      << [id |-> <<"a">>, link_id |-> <<"T", "1">>] >>,
      << [id |-> <<"a">>, parent_id |-> NaN] >> }

\* what os.path.exists and pd.read_csv find at the source path: no file, a
\* file read_csv cannot parse, or a table
Files ==
    { [kind |-> "missing", rows |-> <<>>],
      [kind |-> "unparsable", rows |-> <<>>] }
    \cup { [kind |-> "csv", rows |-> t] : t \in CsvTables }

\* self.data = None
NoData == [frame |-> FALSE, rows |-> <<>>]

\* self.data = the DataFrame read_csv returned
DataFrame(rows) == [frame |-> TRUE, rows |-> rows]

InitLoader ==
    /\ input \in SourceArgs
    /\ df = <<>>
    /\ columns = {}
    /\ graphs = <<>>
    /\ calcRuns = 0
    /\ lastOp = "new"
    /\ arg = 0
    /\ outcome = "ok"
    /\ result = <<>>

\* RedditDataLoader(source): self.source = source, self.data = None
RedditDataLoader ==
    /\ lastOp = "new"
    /\ df' = [source |-> IF input = Unset THEN DEFAULT_FILENAME ELSE input,
              data |-> NoData]
    /\ lastOp' = "__init__"
    /\ outcome' = "ok"
    /\ UNCHANGED <<input, columns, graphs, calcRuns, arg, result>>

\* how a load call that finds file ends
LoadOutcome(file) ==
    IF file.kind = "missing" THEN "FileNotFoundError"
    ELSE IF file.kind = "unparsable" THEN "ParserError"
    ELSE "ok"

\* variant of load that clears self.data before it looks for the file
LoadClearing(file) ==
    /\ df # <<>>
    /\ Len(result) < MaxLoaderCalls
    /\ df' = [df EXCEPT !.data = IF LoadOutcome(file) = "ok"
                                  THEN DataFrame(file.rows) ELSE NoData]
    /\ outcome' = LoadOutcome(file)
    /\ result' = Append(result, [op |-> "load", file |-> file.kind,
                                 outcome |-> LoadOutcome(file),
                                 data |-> df'.data])
    /\ lastOp' = "load"
    /\ UNCHANGED <<input, columns, graphs, calcRuns, arg>>

\* loader.load(): self.data is assigned only after read_csv has returned
load(file) ==
    /\ df # <<>>
    /\ Len(result) < MaxLoaderCalls
    /\ df' = IF LoadOutcome(file) = "ok"
             THEN [df EXCEPT !.data = DataFrame(file.rows)] ELSE df
    /\ outcome' = LoadOutcome(file)
    /\ result' = Append(result, [op |-> "load", file |-> file.kind,
                                 outcome |-> LoadOutcome(file),
                                 data |-> df'.data])
    /\ lastOp' = "load"
    /\ UNCHANGED <<input, columns, graphs, calcRuns, arg>>

\* how get_basic_stats ends on self.data
StatsOutcome(data) ==
    IF data = NoData THEN "ValueError"
    ELSE IF \E i \in DOMAIN data.rows : "parent_id" \notin DOMAIN data.rows[i]
    THEN "KeyError"                  \* self.data['parent_id']
    ELSE "ok"

get_basic_stats ==
    /\ df # <<>>
    /\ Len(result) < MaxLoaderCalls
    /\ outcome' = StatsOutcome(df.data)
    /\ result' = Append(result, [op |-> "get_basic_stats", file |-> "none",
                                 outcome |-> StatsOutcome(df.data),
                                 data |-> df.data])
    /\ lastOp' = "get_basic_stats"
    /\ UNCHANGED <<input, df, columns, graphs, calcRuns, arg>>

NextLoader ==
    \/ RedditDataLoader
    \/ \E file \in Files : load(file)
    \/ get_basic_stats

SpecLoader == InitLoader /\ [][NextLoader]_vars

----------------------------------------------------------------------------
(* The analyze command of emocon/cli.py.  input holds the two flags and    *)
(* what the run finds (the data file, the visualization module), lastOp    *)
(* the position in the command, df how each stage ended, columns the files *)
(* written, calcRuns the sub-analyses of stage 5 that finished, result the *)
(* echoed lines and arg the exit status.                                   *)

Stages == 1..5

\* the sub-analyses of stage 5, in the order of the code
SubAnalyses == 6

\* the statements of stage 3 that can raise: read_parquet, the child
\* aggregation and its write, the parent aggregation and its write
AggregateSteps == 5

AnalyzeInputs ==
    [ skip_download : BOOLEAN, skip_preprocess : BOOLEAN,
      data_file_exists : BOOLEAN, VISUALIZATION_AVAILABLE : BOOLEAN ]

InitAnalyze ==
    /\ input \in AnalyzeInputs
    /\ df = [s \in Stages |-> "not started"]
    /\ columns = {}
    /\ graphs = <<>>
    /\ calcRuns = 0
    /\ lastOp = "stage1"
    /\ arg = 0
    /\ outcome = "running"
    /\ result = << "EMOCON: Full Pipeline Execution" >>

\* click.echo(..., err=True) followed by sys.exit(1)
Fail(stage, line, written) ==
    /\ df' = [df EXCEPT ![stage] = "failed"]
    /\ result' = result \o line
    /\ columns' = columns \cup written
    /\ lastOp' = "exit"
    /\ arg' = 1
    /\ outcome' = "SystemExit"
    /\ UNCHANGED <<input, graphs, calcRuns>>

\* the stage ran to its end (or was skipped) and the command goes on
Pass(stage, how, line, written, next) ==
    /\ df' = [df EXCEPT ![stage] = how]
    /\ result' = result \o line
    /\ columns' = columns \cup written
    /\ lastOp' = next
    /\ UNCHANGED <<input, graphs, calcRuns, arg, outcome>>

\* Stage 1: Download
Stage1_Download ==
    /\ lastOp = "stage1"
    /\ IF input.skip_download
       THEN Pass(1, "skipped", <<>>, {}, "stage2")
       ELSE IF input.data_file_exists
       THEN Pass(1, "ok", << "[Stage 1/5]", "Dataset already exists" >>, {},
                 "stage2")
       ELSE \/ Pass(1, "ok", << "[Stage 1/5]" >>, { "goemotions_local.csv" },
                    "stage2")
            \/ Fail(1, << "[Stage 1/5]", "Download failed" >>, {})

\* Stage 2: Preprocess
Stage2_Preprocess ==
    /\ lastOp = "stage2"
    /\ IF input.skip_preprocess
       THEN Pass(2, "skipped", <<>>, {}, "stage3")
       ELSE \/ Pass(2, "ok", << "[Stage 2/5]", "Preprocessing complete" >>,
                    { "data/threads_with_replies.parquet",
                      "data/parent_child_pairs.parquet" }, "stage3")
            \/ Fail(2, << "[Stage 2/5]", "Preprocessing failed" >>, {})

\* the files stage 3 has written when its statement number k raises
AggregateWritten(k) ==
    (IF k > 3 THEN { "data/emotion_scores_child.parquet" } ELSE {})
    \cup (IF k > 5 THEN { "data/emotion_scores_parent.parquet" } ELSE {})

\* Stage 3: Aggregate emotions
Stage3_Aggregate ==
    /\ lastOp = "stage3"
    /\ \/ Pass(3, "ok", << "[Stage 3/5]", "Emotion aggregation complete" >>,
                AggregateWritten(AggregateSteps + 1), "stage4")
       \/ \E k \in 1..AggregateSteps :
              Fail(3, << "[Stage 3/5]", "Emotion aggregation failed" >>,
                   AggregateWritten(k))

\* Stage 4: Prepare contagion dataset
Stage4_Prepare ==
    /\ lastOp = "stage4"
    /\ \/ Pass(4, "ok", << "[Stage 4/5]", "Contagion dataset ready" >>,
                { "data/contagion_ready.parquet" }, "stage5")
       \/ Fail(4, << "[Stage 4/5]", "Contagion preparation failed" >>, {})

\* the result files the first k sub-analyses of stage 5 write
ContagionWritten(k) ==
    { f \in { <<1, "results/contagion_stats.json">>,
              <<2, "results/propagation">>, <<3, "results/decay">>,
              <<4, "results/transitions">>, <<5, "results/significance">>,
              <<6, "results/outliers">> } : f[1] <= k }

\* Stage 5: Run contagion analysis.  The handler of this stage echoes the
\* failure and goes on to the summary.
Stage5_Contagion ==
    /\ lastOp = "stage5"
    /\ \E done \in 0..SubAnalyses :
          /\ calcRuns' = done
          /\ columns' = columns \cup { f[2] : f \in ContagionWritten(done) }
          /\ IF done = SubAnalyses
             THEN /\ df' = [df EXCEPT ![5] = "ok"]
                  /\ result' = result \o << "[Stage 5/5]",
                                            "Contagion analysis complete!" >>
                                     \o (IF input.VISUALIZATION_AVAILABLE
                                         THEN << "Generating additional visualizations..." >>
                                         ELSE <<>>)
             ELSE /\ df' = [df EXCEPT ![5] = "failed"]
                  /\ result' = result \o << "[Stage 5/5]",
                                            "Contagion analysis failed",
                                            "(This is non-fatal, continuing...)" >>
    /\ lastOp' = "summary"
    /\ UNCHANGED <<input, graphs, arg, outcome>>

\* Summary, and the normal return of the command
Summary ==
    /\ lastOp = "summary"
    /\ result' = result \o << "PIPELINE COMPLETE!" >>
    /\ lastOp' = "done"
    /\ outcome' = "ok"
    /\ UNCHANGED <<input, df, columns, graphs, calcRuns, arg>>

NextAnalyze ==
    \/ Stage1_Download
    \/ Stage2_Preprocess
    \/ Stage3_Aggregate
    \/ Stage4_Prepare
    \/ Stage5_Contagion
    \/ Summary

SpecAnalyze == InitAnalyze /\ [][NextAnalyze]_vars

----------------------------------------------------------------------------
(* ThreadBuilder._clean_reddit_id on its own: the method applied to a      *)
(* reference and then to its own output.                                   *)

\* the characters of a reference: the letter of Reddit's type tags, another
\* letter, two digits and the underscore
RefChars == { "t", "a", "1", "3", "_" }

References == UNION { [1..n -> RefChars] : n \in 0..MaxRefLen } \cup {NaN}

InitClean ==
    /\ input \in References
    /\ df = <<>>
    /\ columns = {}
    /\ graphs = <<>>
    /\ calcRuns = 0
    /\ lastOp = "init"
    /\ arg = 0
    /\ outcome = "ok"
    /\ result = <<>>

\* one call of _clean_reddit_id, on the reference or on the last value returned
clean_reddit_id_call ==
    /\ Len(result) < MaxCleanCalls
    /\ result' = Append(result,
                    clean_reddit_id(IF result = <<>> THEN input
                                    ELSE result[Len(result)]))
    /\ lastOp' = "_clean_reddit_id"
    /\ outcome' = "ok"
    /\ UNCHANGED <<input, df, columns, graphs, calcRuns, arg>>

NextClean == clean_reddit_id_call

SpecClean == InitClean /\ [][NextClean]_vars

----------------------------------------------------------------------------
(* Properties *)

Nodes(l) == Range(graphs[l].nodes)

Edges(l) == Range(graphs[l].edges)

\* the rows of thread l in self.df
ThreadRows(l) == { i \in DOMAIN df : df[i].link_id = l }

InputIdSet == { input[i].id : i \in DOMAIN input }

UniqueIds == \A i, j \in DOMAIN input : input[i].id = input[j].id => i = j

\* no comment names itself as its parent
NoSelfReference == \A i \in DOMAIN df : df[i].parent_id_clean # df[i].id

\* no comment id occurs under two thread identifiers
NoIdInTwoThreads ==
    \A i, j \in DOMAIN input :
        input[i].id = input[j].id => input[i].link_id = input[j].link_id

\* self.graphs holds the graphs of the table
GraphsBuilt == lastOp = "build_thread_graphs" \/ DOMAIN graphs # {}

Returned(op) == lastOp = op /\ outcome = "ok"

\* C1 (as claimed): after build_thread_graphs every input comment is a node
\* of exactly one thread graph, the one keyed by its link_id: the per-thread
\* node sets are pairwise disjoint and their union is the set of input ids.
C1_PartitionClaimed ==
    GraphsBuilt =>
        /\ \A i \in DOMAIN input :
               /\ input[i].link_id \in DOMAIN graphs
               /\ input[i].id \in Nodes(input[i].link_id)
        /\ UNION { Nodes(l) : l \in DOMAIN graphs } = InputIdSet
        /\ \A l1, l2 \in DOMAIN graphs : l1 # l2 => Nodes(l1) \cap Nodes(l2) = {}

\* C1 (amended): after build_thread_graphs there is one graph per link_id of
\* the table, every input comment is a node of the graph keyed by its
\* link_id, and the union of the node sets is the set of input ids; the node
\* sets are pairwise disjoint when no id occurs under two link_ids.
C1_Partition ==
    GraphsBuilt =>
        /\ DOMAIN graphs = { input[i].link_id : i \in DOMAIN input }
        /\ \A i \in DOMAIN input : input[i].id \in Nodes(input[i].link_id)
        /\ UNION { Nodes(l) : l \in DOMAIN graphs } = InputIdSet
        /\ NoIdInTwoThreads =>
               \A l1, l2 \in DOMAIN graphs :
                   l1 # l2 => Nodes(l1) \cap Nodes(l2) = {}

\* two thread graphs were built from a table without cross-thread ids, one
\* of whose comments refers to a comment of the other thread
C1_Witness ==
    /\ lastOp = "build_thread_graphs"
    /\ Cardinality(DOMAIN graphs) = 2
    /\ NoIdInTwoThreads
    /\ \E i, j \in DOMAIN df :
           /\ df[i].parent_id_clean = df[j].id
           /\ df[i].link_id # df[j].link_id

\* C2: in every thread graph the edge (p, c) is present exactly when some row
\* of the thread with id c has normalized parent p and p is a node of the
\* thread; both end points of every edge are comments of the thread; a
\* comment whose normalized parent is null or no node of its thread has no
\* incoming edge.
C2_Edges ==
    GraphsBuilt =>
        \A l \in DOMAIN graphs :
            /\ Edges(l) =
                   { e \in Nodes(l) \X Nodes(l) :
                       \E i \in ThreadRows(l) :
                           df[i].id = e[2] /\ df[i].parent_id_clean = e[1] }
            /\ \A e \in Edges(l) :
                   \A k \in 1..2 : \E i \in ThreadRows(l) : df[i].id = e[k]
            /\ \A c \in Nodes(l) :
                   (\A i \in ThreadRows(l) :
                        df[i].id = c =>
                            \/ df[i].parent_id_clean = NaN
                            \/ df[i].parent_id_clean \notin Nodes(l))
                   => \A e \in Edges(l) : e[2] # c

\* a built graph has an edge between two different comments while another
\* comment's parent is a comment of the other thread only
C2_Witness ==
    /\ lastOp = "build_thread_graphs"
    /\ \E l \in DOMAIN graphs : \E e \in Edges(l) : e[1] # e[2]
    /\ \E i \in DOMAIN df :
           /\ df[i].parent_id_clean # NaN
           /\ df[i].parent_id_clean \notin Nodes(df[i].link_id)
           /\ df[i].parent_id_clean \in InputIdSet

\* the comments the root definition of the claim names: no row of the thread
\* with this id has, as normalized parent, the id of another node of the thread
RootByDefinition(l, n) ==
    ~ \E i \in ThreadRows(l) :
          /\ df[i].id = n
          /\ df[i].parent_id_clean # n
          /\ df[i].parent_id_clean \in Nodes(l)

\* C3: in every thread, a node is a root for calculate_depths (a source of a
\* breadth-first search, with depth 0) if and only if its normalized parent
\* reference does not equal the id of any other node of the thread.
C3_RootDefinition ==
    Returned("calculate_depths") =>
        \A l \in DOMAIN graphs : \A n \in Nodes(l) :
            RootByDefinition(l, n) <=>
                /\ n \in Range(RootNodes(graphs[l]))
                /\ \E e \in Range(DepthList(graphs)) :
                       e.id = n /\ e.link_id = l /\ e.depth = 0

\* no comment id has two records in depth_list
NoIdReachedTwice ==
    LET dl == DepthList(graphs)
    IN \A i, j \in DOMAIN dl : dl[i].id = dl[j].id => i = j

\* the depths the returned table shows for comment n
DepthsOf(n) == { result[i].depth : i \in { j \in DOMAIN result : result[j].id = n } }

C5_RowsPreserved ==
    (Returned("calculate_depths") /\ UniqueIds) =>
        /\ Len(result) = Len(input)
        /\ \A i \in DOMAIN result :
               /\ \A k \in DOMAIN input[i] : result[i][k] = input[i][k]
               /\ "depth" \in DOMAIN result[i]
               /\ result[i].depth \in Nat

\* calculate_depths returned for three comments with unique ids, one at
\* depth 1 and one that no traversal reaches
C5_Witness ==
    /\ Returned("calculate_depths")
    /\ UniqueIds
    /\ Len(input) = 3
    /\ \E i \in DOMAIN result : result[i].depth = 1
    /\ \E i \in DOMAIN result :
           \A e \in Range(DepthList(graphs)) : e.id # result[i].id

\* C6: a comment reached by more than one root's traversal is resolved to a
\* single depth: in the table calculate_depths returns, no comment appears
\* with two different depths.
C6_SingleDepth ==
    Returned("calculate_depths") =>
        \A i, j \in DOMAIN result :
            result[i].id = result[j].id => result[i].depth = result[j].depth

\* C7: on every table with at least one row, tables with self-referential or
\* cyclic parent references included, the first calculate_depths call on a
\* builder completes without error and gives depth 0 to every comment that
\* no root's traversal reaches.
C7_CyclesTolerated ==
    (lastOp = "calculate_depths" /\ calcRuns = 1 /\ input # <<>>) =>
        /\ outcome = "ok"
        /\ \A i \in DOMAIN result :
               (\A e \in Range(DepthList(graphs)) : e.id # result[i].id)
               => result[i].depth = 0

\* C8: on a table with zero rows no method raises an exception and every
\* method's result is empty.
C8_EmptyInput ==
    input = <<>> => outcome = "ok" /\ result = <<>>

\* the threads of self.df with a comment at depth min_depth or deeper
ThreadsReaching(min_depth) ==
    { l \in LinkIds : \E i \in ThreadRows(l) : df[i].depth >= min_depth }

\* C9: filter_deep_threads(min_depth) returns exactly the comments of the
\* threads whose maximum depth is >= min_depth: the rows of such a thread
\* are all in the result, in table order, and no row of another thread is.
C9_FilterAtomic ==
    Returned("filter_deep_threads") =>
        /\ result = SelectSeq(df, LAMBDA r : r.link_id \in ThreadsReaching(arg))
        /\ \A l \in LinkIds :
               LET kept == Cardinality({ i \in DOMAIN result : result[i].link_id = l })
               IN IF \A i \in ThreadRows(l) : df[i].depth < arg
                  THEN kept = 0
                  ELSE kept = Cardinality(ThreadRows(l))

\* a filter call with a positive threshold kept one thread, one of whose
\* comments lies below the threshold, and dropped the other thread
C9_Witness ==
    /\ Returned("filter_deep_threads")
    /\ arg >= 1
    /\ \E i \in DOMAIN result : result[i].depth < arg
    /\ \E i \in DOMAIN result : result[i].depth = arg
    /\ \E i \in DOMAIN df : \A j \in DOMAIN result : result[j].link_id # df[i].link_id

\* the rows of self.df whose normalized parent is the id of a row of self.df
ResolvableChildren ==
    { i \in DOMAIN df : \E j \in DOMAIN df : df[j].id = df[i].parent_id_clean }

\* C10 (as claimed): get_parent_child_pairs returns one row per comment whose
\* normalized parent is the id of some row of the table and no other row:
\* the pair count is the number of such comments, it never exceeds the number
\* of comments with a non-null normalized parent, and no (id_parent,
\* id_child) combination occurs twice.
C10_PairsClaimed ==
    Returned("get_parent_child_pairs") =>
        /\ Len(result) = Cardinality(ResolvableChildren)
        /\ Len(result) <=
               Cardinality({ i \in DOMAIN df : df[i].parent_id_clean # NaN })
        /\ \A i, j \in DOMAIN result :
               (/\ result[i].id_parent = result[j].id_parent
                /\ result[i].id_child = result[j].id_child) => i = j

\* C10 (amended): on a table whose comment ids are unique,
\* get_parent_child_pairs returns one row per comment whose normalized parent
\* is the id of some row of the table, in table order, pairing it with that
\* parent, and no other row; the pair count never exceeds the number of
\* comments with a non-null normalized parent, and no (id_parent, id_child)
\* combination occurs twice.
C10_Pairs ==
    (Returned("get_parent_child_pairs") /\ UniqueIds) =>
        LET kids == SelectSeq(df, LAMBDA r :
                        \E j \in DOMAIN df : df[j].id = r.parent_id_clean)
        IN /\ Len(result) = Len(kids)
           /\ Len(result) = Cardinality(ResolvableChildren)
           /\ \A i \in DOMAIN result :
                  /\ result[i].id_child = kids[i].id
                  /\ result[i].id_parent = kids[i].parent_id_clean
           /\ Len(result) <=
                  Cardinality({ i \in DOMAIN df : df[i].parent_id_clean # NaN })
           /\ \A i, j \in DOMAIN result :
                  (/\ result[i].id_parent = result[j].id_parent
                   /\ result[i].id_child = result[j].id_child) => i = j

\* pairs were extracted from a table with unique ids in which one comment's
\* parent is a row and another comment's non-null parent is no row
C10_Witness ==
    /\ Returned("get_parent_child_pairs")
    /\ UniqueIds
    /\ \E i \in DOMAIN result : result[i].id_child # result[i].id_parent
    /\ \E i \in DOMAIN df :
           df[i].parent_id_clean # NaN /\ i \notin ResolvableChildren

\* C11: no comment that is a root of its thread graph (depth 0, its parent
\* reference resolving to no comment of its own thread) appears as the child
\* of a row returned by get_parent_child_pairs.
C11_RootsExcluded ==
    (Returned("get_parent_child_pairs") /\ GraphsBuilt /\ UniqueIds) =>
        \A i \in DOMAIN result :
            result[i].id_child \notin Range(RootNodes(graphs[result[i].link_id]))

\* C12: in the pipeline's order, on a table with unique ids and no comment
\* that is its own parent, a get_parent_child_pairs call that follows
\* filter_deep_threads returns only comments, as child or as parent, of the
\* threads the filter has just retained for its threshold.
C12_PairsFromRetained ==
    [][(/\ lastOp = "filter_deep_threads"
        /\ outcome = "ok"
        /\ UniqueIds
        /\ NoSelfReference
        /\ lastOp' = "get_parent_child_pairs"
        /\ outcome' = "ok")
       => \A i \in DOMAIN result' :
              \A c \in {result'[i].id_child, result'[i].id_parent} :
                  \E j \in DOMAIN result : result[j].id = c]_vars

\* C13: whatever operations preceded the call, every row returned by
\* get_parent_child_pairs has a depth column, holding the depth
\* calculate_depths gave to the row's child.
C13_PairDepth ==
    Returned("get_parent_child_pairs") =>
        \A i \in DOMAIN result :
            /\ "depth" \in DOMAIN result[i]
            /\ \E j \in DOMAIN df :
                   /\ df[j].id = result[i].id_child
                   /\ "depth" \in DOMAIN df[j]
                   /\ df[j].depth = result[i].depth

\* the names a role suffix gives to the columns of self.df
Suffixed(suffix) == { c \o suffix : c \in columns }

\* C14 (as claimed): in the pair output every column is a child attribute
\* suffixed _child or a parent attribute suffixed _parent, the ids being
\* id_child and id_parent, except the one unsuffixed column depth.
C14_SuffixesClaimed ==
    Returned("get_parent_child_pairs") =>
        \A i \in DOMAIN result :
            /\ {"id_child", "id_parent"} \subseteq DOMAIN result[i]
            /\ \A k \in DOMAIN result[i] :
                   k = "depth" \/ k \in Suffixed("_child") \cup Suffixed("_parent")

\* C14 (amended): in the pair output every attribute both sides of the join
\* have (id, text, text_clean and the emotion columns) appears twice,
\* suffixed _child with the child's value and _parent with the parent's, the
\* ids being id_child and id_parent; the attributes only the child side has
\* (link_id, parent_id, parent_id_clean and, once computed, depth) keep
\* their unsuffixed names and the child's values; no attribute both sides
\* have is left without a role suffix.
C14_Suffixes ==
    Returned("get_parent_child_pairs") =>
        LET shared == MergeCols(columns)
            own == columns \ shared
        IN \A i \in DOMAIN result :
               /\ DOMAIN result[i] =
                      own \cup { c \o "_child" : c \in shared }
                          \cup { c \o "_parent" : c \in shared }
               /\ {"id_child", "id_parent", "text_child", "text_parent"}
                      \subseteq DOMAIN result[i]
               /\ {"link_id", "parent_id", "parent_id_clean"} \subseteq own
               /\ shared \cap DOMAIN result[i] = {}
               /\ \E c, p \in DOMAIN df :
                      /\ df[c].parent_id_clean = df[p].id
                      /\ \A k \in own : result[i][k] = df[c][k]
                      /\ \A k \in shared :
                             /\ result[i][k \o "_child"] = df[c][k]
                             /\ result[i][k \o "_parent"] = df[p][k]

\* pairs were extracted after the depths were computed, and one of them joins
\* a comment to a different comment
C14_Witness ==
    /\ Returned("get_parent_child_pairs")
    /\ "depth" \in columns
    /\ \E i \in DOMAIN result :
           /\ result[i].id_child # result[i].id_parent
           /\ result[i].depth = 1

\* C15 (as claimed): for every reference string and for the null reference,
\* applying _clean_reddit_id to its own output changes nothing.
C15_IdempotentClaimed ==
    Len(result) >= 2 => result[2] = result[1]

\* the number of underscores of a reference
UnderscoreCount(s) == Cardinality({ i \in DOMAIN s : s[i] = "_" })

\* C15 (amended): for the null reference and for every reference string with
\* at most one underscore (a Reddit reference: an optional type prefix
\* before an identifier that has no underscore), applying _clean_reddit_id
\* to its own output changes nothing.
C15_Idempotent ==
    (Len(result) >= 2 /\ (input = NaN \/ UnderscoreCount(input) <= 1)) =>
        result[2] = result[1]

\* a prefixed reference with one underscore lost its prefix in the first
\* call and went through a second call
C15_Witness ==
    /\ Len(result) = 2
    /\ input # NaN
    /\ UnderscoreCount(input) = 1
    /\ result[1] # input
    /\ result[1] # <<>>

\* length of the leading tag of s when s starts with one of the given
\* letters, one or more digits and an underscore; 0 when it does not
TagLen(s, letters) ==
    IF \E n \in 3..Len(s) :
           /\ s[1] \in letters
           /\ \A j \in 2..(n - 1) : s[j] \in Digits
           /\ s[n] = "_"
    THEN CHOOSE n \in 3..Len(s) :
           /\ s[1] \in letters
           /\ \A j \in 2..(n - 1) : s[j] \in Digits
           /\ s[n] = "_"
    ELSE 0

\* what the claim of C16 gives for a reference, for a set of tag letters
Stripped(s, letters) ==
    IF s = NaN THEN s ELSE SubSeq(s, TagLen(s, letters) + 1, Len(s))

\* C16 (as claimed): for a reference that starts with a letter, one or more
\* digits and an underscore, _clean_reddit_id returns what follows that
\* first prefix; for any other reference, null included, it returns its
\* input.
C16_StripClaimed ==
    Len(result) >= 1 => result[1] = Stripped(input, {"t", "a"})

\* C16 (amended): for a reference that starts with the letter t, one or more
\* digits and an underscore (t1_, t3_), _clean_reddit_id returns what
\* follows that first prefix; for any other reference, null included, it
\* returns its input.
C16_Strip ==
    Len(result) >= 1 =>
        /\ result[1] = Stripped(input, {"t"})
        /\ TagLen(input, {"t"}) = 0 => result[1] = input

\* a reference with two prefixes in a row went through one call, which took
\* the first prefix and left the second
C16_Witness ==
    /\ Len(result) >= 1
    /\ input # NaN
    /\ TagLen(input, {"t"}) > 0
    /\ TagLen(result[1], {"t"}) > 0

\* the columns the input contract requires
RequiredColumns == {"id", "parent_id", "link_id"}

\* C17: when the input table lacks a required column (id, parent_id or
\* link_id), the constructor raises and nothing else ever happens: no
\* builder exists, no reference is normalized, no graph is built and no
\* method returns a result.
C17_MissingColumnFatal ==
    ~(RequiredColumns \subseteq InputColumns) =>
        /\ ~Constructed
        /\ df = <<>>
        /\ graphs = <<>>
        /\ result = <<>>
        /\ lastOp \in {"new", "__init__"}
        /\ lastOp = "__init__" => outcome # "ok"

\* C18, for the two methods that compute no depth: on a table that has the
\* columns id, parent_id and link_id, whatever other columns it has or
\* lacks, build_thread_graphs and get_parent_child_pairs complete without
\* error.
C18_RequiredColumnsSuffice ==
    (/\ RequiredColumns \subseteq InputColumns
     /\ lastOp \in {"build_thread_graphs", "get_parent_child_pairs"})
    => outcome = "ok"

\* C19: a run of preprocess --min-depth m that completes retains exactly the
\* threads whose maximum depth is >= m: the table it writes as
\* threads_with_replies holds the rows of those threads and no other.
C19_ThresholdApplied ==
    (lastOp = "preprocess" /\ outcome = "ok") =>
        result.threads_with_replies =
            SelectSeq(df, LAMBDA r : r.link_id \in ThreadsReaching(arg))

\* the first calculate_depths of a new builder on the rows of thread l alone
SubTableRun(l) ==
    CalculateDepths([i \in DOMAIN Group(input, l) |->
                        WithParentClean(Group(input, l)[i])],
                    {"id", "parent_id", "link_id", "text", "parent_id_clean"},
                    <<>>)

\* C20: on a table with unique ids, the depths calculate_depths returns for
\* the rows of a thread are the depths a builder on the sub-table of that
\* thread alone returns: the sub-table call returns too, and the whole-table
\* result restricted to the thread is the sub-table result.
C20_ThreadsIndependent ==
    (Returned("calculate_depths") /\ UniqueIds) =>
        \A l \in GroupKeys(input) :
            /\ SubTableRun(l).outcome = "ok"
            /\ SelectSeq(result, LAMBDA r : r.link_id = l) = SubTableRun(l).df

\* the nodes of thread l that a path of k or fewer edges from a node of S ends in
RECURSIVE Within(_, _, _)
Within(l, S, k) ==
    LET next == { e[2] : e \in { f \in Edges(l) : f[1] \in S } }
    IN IF k = 0 THEN {} ELSE next \cup Within(l, next, k - 1)

\* the nodes of thread l reachable from n by a path of one or more edges
Descendants(l, n) == Within(l, {n}, Cardinality(Nodes(l)))

\* C21: on a table with unique ids and no comment that is its own parent,
\* every graph build_thread_graphs builds is a forest: each node has at most
\* one incoming edge, no node lies on a directed cycle, and every node is a
\* root or a descendant of a root for exactly one root.
C21_Forest ==
    (GraphsBuilt /\ UniqueIds /\ NoSelfReference) =>
        \A l \in DOMAIN graphs :
            \A n \in Nodes(l) :
                /\ InDegree(graphs[l], n) <= 1
                /\ n \notin Descendants(l, n)
                /\ Cardinality({ r \in Range(RootNodes(graphs[l])) :
                                    n = r \/ n \in Descendants(l, r) }) = 1

C27_TraversalBounded ==
    GraphsBuilt =>
        \A l \in DOMAIN graphs :
            \A r \in Range(RootNodes(graphs[l])) :
                LET t == single_source_shortest_path_length(graphs[l], r)
                IN /\ \A i, j \in DOMAIN t : t[i].node = t[j].node => i = j
                   /\ Len(t) <= Cardinality(Nodes(l))
                   /\ \A i \in DOMAIN t : t[i].depth < Cardinality(Nodes(l))

\* calculate_depths returned on a graph in which the traversal from a root
\* reaches a node that lies on a cycle
C27_Witness ==
    /\ Returned("calculate_depths")
    /\ \E l \in DOMAIN graphs :
           \E r \in Range(RootNodes(graphs[l])) :
               \E n \in Descendants(l, r) : n \in Descendants(l, n)

\* C29: a calculate_depths call on a builder whose table already has its
\* depth column succeeds and leaves the depth-annotated table as it was,
\* returning it.
C29_CalculateIdempotent ==
    [][("depth" \in columns /\ lastOp' = "calculate_depths")
       => /\ outcome' = "ok"
          /\ df' = df
          /\ columns' = columns
          /\ result' = df]_vars

\* the depth-annotated table of the input, as the first depth computation
\* of a new builder leaves it
AnnotatedTable ==
    CalculateDepths([i \in DOMAIN input |-> WithParentClean(input[i])],
                    {"id", "parent_id", "link_id", "text", "parent_id_clean"},
                    <<>>).df

\* C30: a filter_deep_threads call on a builder whose depths are computed
\* leaves the builder's table, columns and graphs as they were, so that
\* whatever filter calls were made before, the table is the depth-annotated
\* table of the input, a filter call returns the rows of that table in the
\* threads reaching its threshold, and get_parent_child_pairs returns the
\* pairs of that table.
C30_FilterFrame ==
    [][/\ ("depth" \in columns /\ lastOp' = "filter_deep_threads")
          => /\ outcome' = "ok"
             /\ df' = df
             /\ columns' = columns
             /\ graphs' = graphs
             /\ df' = AnnotatedTable
             /\ result' = FilteredRows(AnnotatedTable, arg')
       /\ ("depth" \in columns /\ lastOp' = "get_parent_child_pairs")
          => /\ df' = AnnotatedTable
             /\ result' = ParentChildPairs(AnnotatedTable, columns)]_vars

\* a filter call on a builder with depths returned fewer rows than the
\* builder's table has, for a positive threshold
C30_Witness ==
    /\ Returned("filter_deep_threads")
    /\ "depth" \in columns
    /\ arg >= 1
    /\ result # <<>>
    /\ Len(result) < Len(df)

\* C23: EmotionAggregator accepts exactly the roles child and parent: for
\* these the aggregator exists with suffix _child / _parent and id column
\* id_child / id_parent, for any other role the constructor raises
\* ValueError and no aggregator exists.
C23_Roles ==
    lastOp # "new" =>
        /\ arg = "child" =>
               df = [role |-> "child", suffix |-> "_child", id_column |-> "id_child"]
        /\ arg = "parent" =>
               df = [role |-> "parent", suffix |-> "_parent", id_column |-> "id_parent"]
        /\ (arg \in {"child", "parent"} /\ lastOp = "__init__") => outcome = "ok"
        /\ arg \notin {"child", "parent"} =>
               /\ df = <<>>
               /\ lastOp = "__init__"
               /\ outcome = "ValueError"

\* the constructor was called with a role that differs from child by its
\* capital letter only, and raised
C23_Witness ==
    /\ lastOp = "__init__"
    /\ arg = "Child"
    /\ outcome = "ValueError"
    /\ df = <<>>

\* the columns of a row other than the two id columns
IndicatorColumns(row) == (DOMAIN row) \ {"id_child", "id_parent"}

\* C24: process_dataframe returns one record per input row, in input order,
\* with the fields comment_id, macro_label and valence; comment_id is the
\* row's value in the id column of the role, and a row with no column equal
\* to 1 gets macro_label neutral and valence 0.
C24_Records ==
    Returned("process_dataframe") =>
        /\ Len(result) = Len(input)
        /\ \A i \in DOMAIN result :
               /\ DOMAIN result[i] = {"comment_id", "macro_label", "valence"}
               /\ arg = "child" => result[i].comment_id = input[i].id_child
               /\ arg = "parent" => result[i].comment_id = input[i].id_parent
               /\ (\A k \in IndicatorColumns(input[i]) : input[i][k] # 1) =>
                      /\ result[i].macro_label = "neutral"
                      /\ result[i].valence.num = 0

\* the parent aggregator processed two rows with different parent ids, one
\* with no active indicator and one with an active parent indicator
C24_Witness ==
    /\ Returned("process_dataframe")
    /\ arg = "parent"
    /\ Len(result) = 2
    /\ result[1].comment_id # result[2].comment_id
    /\ \E i \in DOMAIN input :
           \A k \in IndicatorColumns(input[i]) : input[i][k] # 1
    /\ \E i \in DOMAIN result : result[i].macro_label # "neutral"

\* the base emotions whose indicator column for the role holds 1
ActiveSet(row, role) ==
    { e \in Range(GOEMOTION_BASE) : row[e \o "_" \o role] = 1 }

\* the sum of the valence scores of a set of emotions, in tenths (surprise
\* has no score and counts 0)
RECURSIVE SetValence(_)
SetValence(S) ==
    IF S = {} THEN 0
    ELSE LET e == CHOOSE x \in S : TRUE
         IN (IF e = "surprise" THEN 0 ELSE EMOTION_VALENCE[e]) + SetValence(S \ {e})

\* C25: for every row and every combination of active indicators, the
\* valence process_dataframe reports is the mean of the active emotions'
\* valence scores and lies in [-1, 1], and the macro_label is one of joy,
\* anger, sadness, fear, other_negative, neutral.
C25_ValenceRange ==
    Returned("process_dataframe") =>
        \A i \in DOMAIN result :
            LET v == result[i].valence
                act == ActiveSet(input[i], arg)
            IN /\ v.den > 0
               /\ -v.den <= v.num /\ v.num <= v.den
               /\ act # {} => /\ v.den = 10 * Cardinality(act)
                              /\ v.num = SetValence(act)
               /\ result[i].macro_label \in
                      {"joy", "anger", "sadness", "fear", "other_negative", "neutral"}

\* a row with three active indicators of both signs was aggregated to a
\* negative valence above -1
C25_Witness ==
    /\ Returned("process_dataframe")
    /\ \E i \in DOMAIN result :
           /\ Cardinality(ActiveSet(input[i], arg)) = 3
           /\ \E e \in ActiveSet(input[i], arg) : ValenceOf(e) > 0
           /\ result[i].valence.num < 0
           /\ result[i].macro_label = "anger"

\* a load call among the first n - 1 calls succeeded
LoadedBefore(n) ==
    \E i \in 1..(n - 1) : result[i].op = "load" /\ result[i].outcome = "ok"

\* C26: a constructed RedditDataLoader has a non-null source, the default
\* file name when none was given, and data None until a call is made; in
\* every sequence of load and get_basic_stats calls, get_basic_stats raises
\* ValueError exactly when no earlier load succeeded, a load that finds no
\* file raises FileNotFoundError, and a load that fails leaves data as it
\* was.
C26_Loader ==
    lastOp # "new" =>
        /\ df.source \in { "goemotions_local.csv" } \cup (SourceArgs \ { Unset })
        /\ input = Unset => df.source = "goemotions_local.csv"
        /\ input # Unset => df.source = input
        /\ result = <<>> => df.data = NoData
        /\ \A n \in DOMAIN result :
               LET before == IF n = 1 THEN NoData ELSE result[n - 1].data
               IN /\ result[n].op = "get_basic_stats" =>
                         (result[n].outcome = "ValueError" <=> ~LoadedBefore(n))
                  /\ (result[n].op = "load" /\ result[n].file = "missing") =>
                         result[n].outcome = "FileNotFoundError"
                  /\ (result[n].op = "load" /\ result[n].outcome # "ok") =>
                         result[n].data = before
        /\ result # <<>> => df.data = result[Len(result)].data

\* a load succeeded, a later load found no file, and get_basic_stats then
\* returned; before all that get_basic_stats had raised
C26_Witness ==
    /\ Len(result) = 4
    /\ result[1].op = "get_basic_stats" /\ result[1].outcome = "ValueError"
    /\ result[2].op = "load" /\ result[2].outcome = "ok"
    /\ result[3].op = "load" /\ result[3].outcome = "FileNotFoundError"
    /\ result[4].op = "get_basic_stats" /\ result[4].outcome = "ok"

\* the analyze command echoed line
Echoed(line) == \E i \in DOMAIN result : result[i] = line

\* C28: a run of analyze either completes fully or fails outright: it
\* reports PIPELINE COMPLETE only when every stage it executed succeeded,
\* and once a stage has failed it starts no later stage and ends with a
\* failure status.
C28_AllOrNothing ==
    /\ Echoed("PIPELINE COMPLETE!") => \A s \in Stages : df[s] # "failed"
    /\ \A s \in Stages :
           df[s] = "failed" =>
               /\ \A t \in Stages : t > s => df[t] = "not started"
               /\ lastOp \in { "exit", "done" } => arg = 1

====
